---------------------------- MODULE Spec2Model ----------------------------
(***************************************************************************)
(* MovieCatalog: the data-access layer (crud.py), the tables it works on   *)
(* (models.py, PostgreSQL per database.py) and the request handlers of     *)
(* main.py that call it.                                                    *)
(*                                                                          *)
(* Strings that the code inspects (director and genre names) are sequences *)
(* of one-character strings, so that strip(), split(",") and ILIKE are      *)
(* computed as the code and the database compute them.                      *)
(***************************************************************************)
EXTENDS Integers, Sequences, FiniteSets, TLC

(* ----------------------------- bounds ---------------------------------- *)
\* highest value the directors_id_seq / genres_id_seq / movies_id_seq /
\* reviews_id_seq sequences reach
MaxDirectors == 2
MaxGenres == 2
MaxMovies == 1
MaxReviews == 1
\* longest genre_ids list / genre_names list / form genre field tried
MaxListLen == 2
\* requests served, for the lifetime of their sessions
MaxRequests == 2
\* highest value movies_id_seq reaches in the catalog of several movies
MaxCatalogMovies == 2

(* ----------------------------- values ---------------------------------- *)
None == "None"

\* the absent row returned by Query.first() on an empty result
NoRow == [id |-> 0]

IsRow(r) == r.id # 0

Range(seq) == {seq[i] : i \in 1..Len(seq)}

(* ----------------------------- strings --------------------------------- *)
\* str.lower() / the case folding ILIKE applies, on the characters in use
Lower(c) ==
    CASE c = "A" -> "a"
      [] c = "B" -> "b"
      [] c = "C" -> "c"
      [] c = "F" -> "f"
      [] c = "N" -> "n"
      [] c = "S" -> "s"
      [] OTHER -> c

LowerStr(s) == [i \in 1..Len(s) |-> Lower(s[i])]

IsSpace(c) == c = " "

RECURSIVE LStrip(_)
LStrip(s) ==
    IF s = <<>> THEN <<>>
    ELSE IF IsSpace(Head(s)) THEN LStrip(Tail(s))
    ELSE s

RECURSIVE RStrip(_)
RStrip(s) ==
    IF s = <<>> THEN <<>>
    ELSE IF IsSpace(s[Len(s)]) THEN RStrip(SubSeq(s, 1, Len(s) - 1))
    ELSE s

\* str.strip()
Strip(s) == RStrip(LStrip(s))

\* str.split(","): the pieces between the commas, empty pieces kept
RECURSIVE SplitFrom(_, _, _)
SplitFrom(s, i, cur) ==
    IF i > Len(s) THEN <<cur>>
    ELSE IF s[i] = "," THEN <<cur>> \o SplitFrom(s, i + 1, <<>>)
    ELSE SplitFrom(s, i + 1, Append(cur, s[i]))

Split(s) == SplitFrom(s, 1, <<>>)

\* PostgreSQL LIKE with the default escape character: % matches any run of
\* characters, _ any one character, \c the character c itself. A pattern
\* that ends in a lone backslash matches nothing here (PostgreSQL rejects
\* it; no input of the model ends in a backslash).
RECURSIVE Like(_, _)
Like(s, p) ==
    IF p = <<>> THEN s = <<>>
    ELSE IF Head(p) = "%"
        THEN Like(s, Tail(p)) \/ (s # <<>> /\ Like(Tail(s), p))
    ELSE IF Head(p) = "_"
        THEN s # <<>> /\ Like(Tail(s), Tail(p))
    ELSE IF Head(p) = "\\"
        THEN /\ Len(p) >= 2
             /\ s # <<>>
             /\ Head(s) = p[2]
             /\ Like(Tail(s), Tail(Tail(p)))
    ELSE s # <<>> /\ Head(s) = Head(p) /\ Like(Tail(s), Tail(p))

\* column.ilike(pattern): LIKE without regard to letter case
ILike(s, p) == Like(LowerStr(s), LowerStr(p))

(* ----------------------------- state ----------------------------------- *)
VARIABLES
    directors,                \* table directors: rows [id, name, birth_date]
    genres,                   \* table genres: rows [id, name]
    movies,                   \* table movies: rows [id, title, year, description, image_url, director_id]
    movie_genre_association,  \* join table: pairs <<movie_id, genre_id>>
    reviews,                  \* table reviews: rows [id, user_name, rating, comment, movie_id]
    users,                    \* table users: the usernames
    seqs,                     \* last value issued by each table's id sequence
    last,                     \* the last call and its result: [op, movie_id, kind, value]
    pc,                       \* per concurrent session: position in get_or_create_director_by_name,
                              \* or in get_db
    clean_name,               \* per concurrent session: the local clean_name
    db_sessions               \* per concurrent request: how many SessionLocal() it opened and closed

tables == <<directors, genres, movies, movie_genre_association, reviews, users>>

vars == <<directors, genres, movies, movie_genre_association, reviews, users,
          seqs, last, pc, clean_name, db_sessions>>

\* what a Session reads and writes
DB ==
    [directors |-> directors, genres |-> genres, movies |-> movies,
     movie_genre_association |-> movie_genre_association,
     reviews |-> reviews, seqs |-> seqs]

Sessions == {1, 2}

\* movie_id: the movie id the call was given, NoId if it takes none; kind: how
\* the call ended; value: the ids it returned
NoId == 0 - 1

Idle == [op |-> "none", movie_id |-> NoId, kind |-> "none", value |-> <<>>]

\* the store after create_tables.py. No handler writes the users table: its
\* rows are registered out of band (seedtest.py registers "admin").
Init ==
    /\ directors = {}
    /\ genres = {}
    /\ movies = {}
    /\ movie_genre_association = {}
    /\ reviews = {}
    /\ users = {"admin"}
    /\ seqs = [directors |-> 0, genres |-> 0, movies |-> 0, reviews |-> 0]
    /\ last = Idle
    /\ pc = [p \in Sessions |-> "idle"]
    /\ clean_name = [p \in Sessions |-> <<>>]
    /\ db_sessions = [p \in Sessions |-> [opened |-> 0, closed |-> 0]]

(* ----------------------------- crud.py: directors ---------------------- *)
\* Query.first(): None on an empty result; otherwise one of the rows. The
\* query has no ORDER BY, so which row comes first is the database's choice.
First(rows) == IF rows = {} THEN {NoRow} ELSE rows

DirectorIds(s) == {d.id : d \in s.directors}

GenreIds(s) == {g.id : g \in s.genres}

MovieIds(s) == {m.id : m \in s.movies}

get_director_by_id(s, director_id) ==
    First({d \in s.directors : d.id = director_id})

get_director_by_name(s, name) ==
    First({d \in s.directors : ILike(d.name, name)})

\* an insert under a unique constraint on directors.name: refused when a row
\* has the name already
InsertDirector_unique_name(s, name) ==
    LET id == s.seqs.directors + 1 IN
    IF \E d \in s.directors : d.name = name
    THEN [s EXCEPT !.seqs.directors = id]
    ELSE [s EXCEPT !.directors = @ \cup {[id |-> id, name |-> name, birth_date |-> None]},
                   !.seqs.directors = id]

\* db.add(Director(name=clean_name)); db.commit(); db.refresh(director)
InsertDirector(s, name) ==
    LET id == s.seqs.directors + 1 IN
    [s EXCEPT !.directors = @ \cup {[id |-> id, name |-> name, birth_date |-> None]},
              !.seqs.directors = id]

\* the outcomes [s, kind, value] of get_or_create_director_by_name(db, name)
get_or_create_director_by_name(s, name) ==
    LET clean == Strip(name) IN
    UNION {
        IF IsRow(director)
        THEN {[s |-> s, kind |-> "ok", value |-> <<director.id>>]}
        ELSE {[s |-> InsertDirector(s, clean), kind |-> "ok",
               value |-> <<s.seqs.directors + 1>>]}
        : director \in get_director_by_name(s, clean)}

(* ----------------------------- crud.py: genres ------------------------- *)
\* get_genres_by_ids without its filter on the ids
get_genres_by_ids_unfiltered(s, genre_ids) ==
    IF genre_ids = <<>> THEN {} ELSE s.genres

\* Genre.id.in_(genre_ids); the empty list short-circuits to []
get_genres_by_ids(s, genre_ids) ==
    IF genre_ids = <<>> THEN {}
    ELSE {g \in s.genres : g.id \in Range(genre_ids)}

\* INSERT INTO genres: name is UNIQUE (models.py), compared exactly; the id
\* sequence advances whether or not the insert succeeds
GenreNameTaken(s, name) == \E g \in s.genres : g.name = name

InsertGenre(s, name) ==
    LET id == s.seqs.genres + 1 IN
    IF GenreNameTaken(s, name)
    THEN [s EXCEPT !.seqs.genres = id]
    ELSE [s EXCEPT !.genres = @ \cup {[id |-> id, name |-> name]},
                   !.seqs.genres = id]

\* the loop of get_or_create_genres_by_names from names[i] on, with the
\* list genres built so far (as ids); each iteration commits on its own
RECURSIVE GenresLoop(_, _, _, _)
GenresLoop(s, names, i, acc) ==
    IF i > Len(names) THEN {[s |-> s, kind |-> "ok", value |-> acc]}
    ELSE
        LET clean == Strip(names[i]) IN
        IF clean = <<>> THEN GenresLoop(s, names, i + 1, acc)
        ELSE UNION {
            IF IsRow(genre)
            THEN GenresLoop(s, names, i + 1, Append(acc, genre.id))
            ELSE IF GenreNameTaken(s, clean)
            THEN {[s |-> InsertGenre(s, clean), kind |-> "IntegrityError", value |-> <<>>]}
            ELSE GenresLoop(InsertGenre(s, clean), names, i + 1,
                            Append(acc, s.seqs.genres + 1))
            : genre \in First({g \in s.genres : ILike(g.name, clean)})}

get_or_create_genres_by_names(s, names) == GenresLoop(s, names, 1, <<>>)

(* ----------------------------- crud.py: movies ------------------------- *)
get_movie(s, movie_id) ==
    First({m \in s.movies : m.id = movie_id})

\* the relationship Movie.genres, read through the join table
MovieGenres(s, movie_id) ==
    {g \in s.genres : <<movie_id, g.id>> \in s.movie_genre_association}

\* the relationship Movie.reviews
MovieReviews(s, movie_id) == {r \in s.reviews : r.movie_id = movie_id}

MovieRow(id, p, director_id) ==
    [id |-> id, title |-> p.title, year |-> p.year, description |-> p.description,
     image_url |-> p.image_url, director_id |-> director_id]

\* create_movie without its check of the director
create_movie_unchecked(s, p, director_id, genre_ids) ==
    LET id == s.seqs.movies + 1 IN
    [s |-> [s EXCEPT
              !.movies = @ \cup {MovieRow(id, p, director_id)},
              !.movie_genre_association =
                  @ \cup {<<id, g.id>> : g \in get_genres_by_ids(s, genre_ids)},
              !.seqs.movies = id],
     kind |-> "ok", value |-> <<id>>]

\* the outcome [s, kind, value] of create_movie(db, title, year, description,
\* director_id, genre_ids, image_url); p carries title, year, description, image_url
create_movie(s, p, director_id, genre_ids) ==
    LET director == CHOOSE d \in get_director_by_id(s, director_id) : TRUE IN
    IF ~IsRow(director)
    THEN [s |-> s, kind |-> "ValueError: Director not found", value |-> <<>>]
    ELSE
        LET genres_ == get_genres_by_ids(s, genre_ids)
            id == s.seqs.movies + 1
        IN [s |-> [s EXCEPT
                     !.movies = @ \cup {MovieRow(id, p, director.id)},
                     !.movie_genre_association = @ \cup {<<id, g.id>> : g \in genres_},
                     !.seqs.movies = id],
            kind |-> "ok", value |-> <<id>>]

\* update_movie that looks the director up before the movie
update_movie_director_first(s, movie_id, p, director_id, genre_ids) ==
    LET movie == CHOOSE m \in get_movie(s, movie_id) : TRUE
        director == CHOOSE d \in get_director_by_id(s, director_id) : TRUE
    IN
    IF ~IsRow(director)
    THEN [s |-> s, kind |-> "ValueError: Director not found", value |-> <<>>]
    ELSE IF ~IsRow(movie)
    THEN [s |-> s, kind |-> "None", value |-> <<>>]
    ELSE [s |-> [s EXCEPT
                   !.movies = (@ \ {movie}) \cup {MovieRow(movie.id, p, director.id)},
                   !.movie_genre_association =
                       {a \in @ : a[1] # movie.id}
                           \cup {<<movie.id, g.id>> : g \in get_genres_by_ids(s, genre_ids)}],
          kind |-> "ok", value |-> <<movie.id>>]

\* update_movie that commits title, year, description and image_url before it
\* looks the director up
update_movie_partial(s, movie_id, p, director_id, genre_ids) ==
    LET movie == CHOOSE m \in get_movie(s, movie_id) : TRUE
        director == CHOOSE d \in get_director_by_id(s, director_id) : TRUE
    IN
    IF ~IsRow(movie)
    THEN [s |-> s, kind |-> "None", value |-> <<>>]
    ELSE IF ~IsRow(director)
    THEN [s |-> [s EXCEPT !.movies =
                     (@ \ {movie}) \cup {MovieRow(movie.id, p, movie.director_id)}],
          kind |-> "ValueError: Director not found", value |-> <<>>]
    ELSE [s |-> [s EXCEPT
                   !.movies = (@ \ {movie}) \cup {MovieRow(movie.id, p, director.id)},
                   !.movie_genre_association =
                       {a \in @ : a[1] # movie.id}
                           \cup {<<movie.id, g.id>> : g \in get_genres_by_ids(s, genre_ids)}],
          kind |-> "ok", value |-> <<movie.id>>]

\* update_movie that adds the genres to those the movie has
update_movie_keeps_genres(s, movie_id, p, director_id, genre_ids) ==
    LET movie == CHOOSE m \in get_movie(s, movie_id) : TRUE IN
    IF ~IsRow(movie)
    THEN [s |-> s, kind |-> "None", value |-> <<>>]
    ELSE
        LET director == CHOOSE d \in get_director_by_id(s, director_id) : TRUE IN
        IF ~IsRow(director)
        THEN [s |-> s, kind |-> "ValueError: Director not found", value |-> <<>>]
        ELSE
            LET genres_ == get_genres_by_ids(s, genre_ids) IN
            [s |-> [s EXCEPT
                      !.movies = (@ \ {movie}) \cup {MovieRow(movie.id, p, director.id)},
                      !.movie_genre_association =
                          @ \cup {<<movie.id, g.id>> : g \in genres_}],
             kind |-> "ok", value |-> <<movie.id>>]

update_movie(s, movie_id, p, director_id, genre_ids) ==
    LET movie == CHOOSE m \in get_movie(s, movie_id) : TRUE IN
    IF ~IsRow(movie)
    THEN [s |-> s, kind |-> "None", value |-> <<>>]
    ELSE
        LET director == CHOOSE d \in get_director_by_id(s, director_id) : TRUE IN
        IF ~IsRow(director)
        THEN [s |-> s, kind |-> "ValueError: Director not found", value |-> <<>>]
        ELSE
            LET genres_ == get_genres_by_ids(s, genre_ids) IN
            [s |-> [s EXCEPT
                      !.movies = (@ \ {movie}) \cup {MovieRow(movie.id, p, director.id)},
                      !.movie_genre_association =
                          {a \in @ : a[1] # movie.id} \cup {<<movie.id, g.id>> : g \in genres_}],
             kind |-> "ok", value |-> <<movie.id>>]

\* delete_movie without the cascade to the reviews
delete_movie_no_cascade(s, movie_id) ==
    LET movie == CHOOSE m \in get_movie(s, movie_id) : TRUE IN
    IF ~IsRow(movie)
    THEN [s |-> s, kind |-> "False", value |-> <<>>]
    ELSE [s |-> [s EXCEPT
                   !.movies = @ \ {movie},
                   !.movie_genre_association = {a \in @ : a[1] # movie.id}],
          kind |-> "True", value |-> <<>>]

\* db.delete(movie): the ORM deletes the movie's reviews (cascade="all,
\* delete-orphan") and its rows of the join table, then the movie
delete_movie(s, movie_id) ==
    LET movie == CHOOSE m \in get_movie(s, movie_id) : TRUE IN
    IF ~IsRow(movie)
    THEN [s |-> s, kind |-> "False", value |-> <<>>]
    ELSE [s |-> [s EXCEPT
                   !.movies = @ \ {movie},
                   !.movie_genre_association = {a \in @ : a[1] # movie.id},
                   !.reviews = @ \ MovieReviews(s, movie.id)],
          kind |-> "True", value |-> <<>>]

(* ----------------------------- crud.py: name-based wrappers ------------- *)
\* the director and the genres resolved by name, in that order: the pairs
\* <<o1, o2>> of the outcomes of the two get_or_create calls
Resolutions(s, director_name, genre_names) ==
    UNION {{<<o1, o2>> : o2 \in get_or_create_genres_by_names(o1.s, genre_names)}
           : o1 \in get_or_create_director_by_name(s, director_name)}

\* create_movie with the resolved ids, unless get_or_create_genres_by_names
\* raised
create_movie_with_names(s, p, director_name, genre_names) ==
    {IF r[2].kind # "ok" THEN r[2]
     ELSE create_movie(r[2].s, p, r[1].value[1], r[2].value)
     : r \in Resolutions(s, director_name, genre_names)}

update_movie_with_names(s, movie_id, p, director_name, genre_names) ==
    {IF r[2].kind # "ok" THEN r[2]
     ELSE update_movie(r[2].s, movie_id, p, r[1].value[1], r[2].value)
     : r \in Resolutions(s, director_name, genre_names)}

(* ----------------------------- main.py: helpers ------------------------- *)
\* get_current_user: the users row the username cookie names, or None;
\* cookie None is a request without the cookie
get_current_user(cookie) ==
    IF cookie = None \/ cookie = "" THEN None
    ELSE IF cookie \in users THEN cookie
    ELSE None

\* x or None
OrNone(x) == IF x = "" THEN None ELSE x

RECURSIVE NonBlankStripped(_)
NonBlankStripped(pieces) ==
    IF pieces = <<>> THEN <<>>
    ELSE IF Strip(Head(pieces)) = <<>> THEN NonBlankStripped(Tail(pieces))
    ELSE <<Strip(Head(pieces))>> \o NonBlankStripped(Tail(pieces))

\* [g.strip() for g in genre_name.split(",") if g.strip()]
FormGenreNames(genre_name) == NonBlankStripped(Split(genre_name))

FormPayload(f) ==
    [title |-> f.title, year |-> f.year, description |-> OrNone(f.description),
     image_url |-> OrNone(f.image_url)]

\* reviews.movie_id without its foreign key
ReviewForeignKey_unenforced(s, movie_id) == TRUE

\* INSERT INTO reviews: movie_id REFERENCES movies(id) (models.py), which
\* PostgreSQL (database.py) enforces at the commit; the id sequence advances
\* either way
ReviewForeignKeyHolds(s, movie_id) == movie_id \in MovieIds(s)

InsertReview(s, movie_id, rating, comment) ==
    LET id == s.seqs.reviews + 1 IN
    IF ReviewForeignKeyHolds(s, movie_id)
    THEN [s |-> [s EXCEPT
                   !.reviews = @ \cup {[id |-> id, user_name |-> "Anonymous",
                                        rating |-> rating, comment |-> comment,
                                        movie_id |-> movie_id]},
                   !.seqs.reviews = id],
          kind |-> "ok", value |-> <<id>>]
    ELSE [s |-> [s EXCEPT !.seqs.reviews = id], kind |-> "IntegrityError", value |-> <<>>]

(* ----------------------------- inputs ---------------------------------- *)
\* request bodies of the JSON API (MovieCreate without director_id, genre_ids)
Payloads ==
    {[title |-> "Inception", year |-> 2010, description |-> "A thief", image_url |-> None],
     [title |-> "Dark", year |-> 2017, description |-> None, image_url |-> "dark.png"]}

\* form fields of POST /add and POST /edit; "" is a field left empty
FormPayloads ==
    {[title |-> "Inception", year |-> 2010, description |-> "A thief", image_url |-> ""],
     [title |-> "Dark", year |-> 2017, description |-> "", image_url |-> "dark.png"]}

\* id 0 is an id no row ever has
DirectorIdInputs == 0..MaxDirectors

GenreIdInputs == 0..MaxGenres

MovieIdInputs == 0..MaxMovies

SeqsUpTo(S, n) == UNION {[1..k -> S] : k \in 0..n}

GenreIdLists == SeqsUpTo(GenreIdInputs, MaxListLen)

\* the genre_ids the steps send: of the lists that name the same ids, the one
\* in ascending order (get_genres_by_ids reads the list as a set of ids)
GenreIdSelections ==
    {g \in GenreIdLists : \A i, j \in 1..Len(g) : i < j => g[i] < g[j]}

\* the director names the steps send: "a", " A ", "\a"
DirectorNameInputs == {<<"a">>, <<" ", "A", " ">>, <<"\\", "a">>}

\* the names the properties try: those, and the LIKE wildcards "_" and "%"
DirectorNames == DirectorNameInputs \cup {<<"_">>, <<"%">>}

\* "a", " A", " ", "\a", "\A"
GenreNameInputs == {<<"a">>, <<" ", "A">>, <<" ">>, <<"\\", "a">>, <<"\\", "A">>}

GenreNameLists == SeqsUpTo(GenreNameInputs, MaxListLen)

\* the genre_name form field: "", "a, A", "\a,\A"
FormGenreInputs ==
    {<<>>, <<"a", ",", " ", "A">>, <<"\\", "a", ",", "\\", "A">>}

\* no username cookie, the cookie of a user, a cookie that names no user
Cookies == {None, "admin", "ghost"}

Ratings == {5}

Comments == {"ok"}

(* ----------------------------- main.py: handlers ----------------------- *)
\* Each handler is the set of outcomes [s, op, movie_id, kind, value] of one
\* request on the store s: s the store it leaves, op the crud call made.
Outcome(out, op, movie_id) ==
    [s |-> out.s, op |-> op, movie_id |-> movie_id, kind |-> out.kind, value |-> out.value]

\* RedirectResponse(url="/login?next=...")
RedirectToLogin(s) ==
    [s |-> s, op |-> "none", movie_id |-> NoId, kind |-> "redirect_login", value |-> <<>>]

\* GET /api/movies/{movie_id}
api_get_movie(s, movie_id) ==
    LET movie == CHOOSE m \in get_movie(s, movie_id) : TRUE IN
    {Outcome([s |-> s, kind |-> IF IsRow(movie) THEN "ok" ELSE "404",
              value |-> IF IsRow(movie) THEN <<movie.id>> ELSE <<>>],
             "get_movie", movie_id)}

\* POST /api/movies
api_create_movie(s, p, director_id, genre_ids) ==
    {Outcome(create_movie(s, p, director_id, genre_ids), "create_movie", NoId)}

\* PUT /api/movies/{movie_id}
api_update_movie(s, movie_id, p, director_id, genre_ids) ==
    {Outcome(update_movie(s, movie_id, p, director_id, genre_ids),
             "update_movie", movie_id)}

\* DELETE /api/movies/{movie_id}
api_delete_movie(s, movie_id) ==
    {Outcome(delete_movie(s, movie_id), "delete_movie", movie_id)}

\* POST /add
handle_add_movie(s, cookie, f, director_name, genre_name) ==
    IF get_current_user(cookie) = None
    THEN {RedirectToLogin(s)}
    ELSE {Outcome(out, "create_movie_with_names", NoId) :
            out \in create_movie_with_names(s, FormPayload(f), director_name,
                                            FormGenreNames(genre_name))}

\* POST /edit/{movie_id}
handle_edit_movie(s, cookie, movie_id, f, director_name, genre_name) ==
    IF get_current_user(cookie) = None
    THEN {RedirectToLogin(s)}
    ELSE {Outcome(out, "update_movie_with_names", movie_id) :
            out \in update_movie_with_names(s, movie_id, FormPayload(f), director_name,
                                            FormGenreNames(genre_name))}

\* POST /delete/{movie_id}
handle_delete_movie(s, cookie, movie_id) ==
    IF get_current_user(cookie) = None
    THEN {RedirectToLogin(s)}
    ELSE {Outcome(delete_movie(s, movie_id), "delete_movie", movie_id)}

\* POST /movies/{movie_id}/review
add_review(s, movie_id, rating, comment) ==
    {Outcome(InsertReview(s, movie_id, rating, comment), "add_review", movie_id)}

(* ----------------------------- steps ----------------------------------- *)
\* the request's commits reach the store
Commits(o) ==
    /\ directors' = o.s.directors
    /\ genres' = o.s.genres
    /\ movies' = o.s.movies
    /\ movie_genre_association' = o.s.movie_genre_association
    /\ reviews' = o.s.reviews
    /\ seqs' = o.s.seqs
    /\ last' = [op |-> o.op, movie_id |-> o.movie_id, kind |-> o.kind, value |-> o.value]
    /\ users' = users

\* the request's commits reach the store and the call returns
Returns(o) ==
    /\ Commits(o)
    /\ UNCHANGED <<pc, clean_name, db_sessions>>

\* room left under the bounds for the rows a call may insert
Room(nd, ng, nm, nr) ==
    /\ seqs.directors + nd <= MaxDirectors
    /\ seqs.genres + ng <= MaxGenres
    /\ seqs.movies + nm <= MaxMovies
    /\ seqs.reviews + nr <= MaxReviews

\* crud.get_or_create_director_by_name called on its own
GetOrCreateDirectorByName(name) ==
    /\ Room(1, 0, 0, 0)
    /\ \E out \in get_or_create_director_by_name(DB, name) :
           Returns(Outcome(out, "get_or_create_director_by_name", NoId))

\* crud.get_or_create_genres_by_names called on its own
GetOrCreateGenresByNames(names) ==
    /\ Room(0, Len(names), 0, 0)
    /\ \E out \in get_or_create_genres_by_names(DB, names) :
           Returns(Outcome(out, "get_or_create_genres_by_names", NoId))

ApiGetMovie(movie_id) ==
    \E o \in api_get_movie(DB, movie_id) : Returns(o)

ApiCreateMovie(p, director_id, genre_ids) ==
    /\ Room(0, 0, 1, 0)
    /\ \E o \in api_create_movie(DB, p, director_id, genre_ids) : Returns(o)

ApiUpdateMovie(movie_id, p, director_id, genre_ids) ==
    \E o \in api_update_movie(DB, movie_id, p, director_id, genre_ids) : Returns(o)

ApiDeleteMovie(movie_id) ==
    \E o \in api_delete_movie(DB, movie_id) : Returns(o)

HandleAddMovie(cookie, f, director_name, genre_name) ==
    /\ Room(1, Len(FormGenreNames(genre_name)), 1, 0)
    /\ \E o \in handle_add_movie(DB, cookie, f, director_name, genre_name) : Returns(o)

HandleEditMovie(cookie, movie_id, f, director_name, genre_name) ==
    /\ Room(1, Len(FormGenreNames(genre_name)), 0, 0)
    /\ \E o \in handle_edit_movie(DB, cookie, movie_id, f, director_name, genre_name) :
           Returns(o)

HandleDeleteMovie(cookie, movie_id) ==
    \E o \in handle_delete_movie(DB, cookie, movie_id) : Returns(o)

AddReview(movie_id, rating, comment) ==
    /\ Room(0, 0, 0, 1)
    /\ \E o \in add_review(DB, movie_id, rating, comment) : Returns(o)

(* ----------------------------- the application ------------------------- *)
Next ==
    \/ \E name \in DirectorNameInputs : GetOrCreateDirectorByName(name)
    \/ \E names \in GenreNameLists : GetOrCreateGenresByNames(names)
    \/ \E m \in MovieIdInputs : ApiGetMovie(m)
    \/ \E p \in Payloads, d \in DirectorIdInputs, g \in GenreIdSelections :
           ApiCreateMovie(p, d, g)
    \/ \E m \in MovieIdInputs, p \in Payloads, d \in DirectorIdInputs,
          g \in GenreIdSelections : ApiUpdateMovie(m, p, d, g)
    \/ \E m \in MovieIdInputs : ApiDeleteMovie(m)
    \/ \E c \in Cookies, f \in FormPayloads, dn \in DirectorNameInputs,
          gn \in FormGenreInputs : HandleAddMovie(c, f, dn, gn)
    \/ \E c \in Cookies, m \in MovieIdInputs, f \in FormPayloads,
          dn \in DirectorNameInputs, gn \in FormGenreInputs :
           HandleEditMovie(c, m, f, dn, gn)
    \/ \E c \in Cookies, m \in MovieIdInputs : HandleDeleteMovie(c, m)
    \/ \E m \in MovieIdInputs, r \in Ratings, t \in Comments : AddReview(m, r, t)

Spec == Init /\ [][Next]_vars

(* ------------- get_or_create_director_by_name, statement by statement --- *)
\* Two requests, each with its own Session, run the function at once. Each
\* SQL statement is atomic; nothing orders the statements of one session
\* against those of the other.

\* clean_name = name.strip()
SessionBegin(p, name) ==
    /\ pc[p] = "idle"
    /\ seqs.directors + Cardinality({q \in Sessions : pc[q] # "idle"}) < MaxDirectors
    /\ clean_name' = [clean_name EXCEPT ![p] = Strip(name)]
    /\ pc' = [pc EXCEPT ![p] = "lookup"]
    /\ UNCHANGED <<tables, seqs, last, db_sessions>>

\* director = get_director_by_name(db, clean_name); if director: return director
SessionLookup(p) ==
    /\ pc[p] = "lookup"
    /\ \E director \in get_director_by_name(DB, clean_name[p]) :
           IF IsRow(director)
           THEN /\ pc' = [pc EXCEPT ![p] = "idle"]
                /\ last' = [op |-> "get_or_create_director_by_name", movie_id |-> NoId,
                            kind |-> "found", value |-> <<director.id>>]
           ELSE /\ pc' = [pc EXCEPT ![p] = "insert"]
                /\ last' = last
    /\ UNCHANGED <<tables, seqs, clean_name, db_sessions>>

\* db.add(director); db.commit(); db.refresh(director); return director
SessionInsert(p) ==
    /\ pc[p] = "insert"
    /\ directors' = InsertDirector(DB, clean_name[p]).directors
    /\ seqs' = InsertDirector(DB, clean_name[p]).seqs
    /\ pc' = [pc EXCEPT ![p] = "idle"]
    /\ last' = [op |-> "get_or_create_director_by_name", movie_id |-> NoId,
                kind |-> "created", value |-> <<seqs.directors + 1>>]
    /\ UNCHANGED <<genres, movies, movie_genre_association, reviews, users, clean_name,
                   db_sessions>>

NextConcurrent ==
    \/ \E p \in Sessions, name \in DirectorNameInputs : SessionBegin(p, name)
    \/ \E p \in Sessions : SessionLookup(p)
    \/ \E p \in Sessions : SessionInsert(p)

SpecConcurrent == Init /\ [][NextConcurrent]_vars

(* ------------- a catalog of several movies, through the JSON routes ------ *)
CatalogMovieIds == 0..MaxCatalogMovies

\* the body the catalog's requests send: the one without a description
CatalogPayloads == {p \in Payloads : p.description = None}

\* POST /api/movies
CatalogCreateMovie(p, director_id, genre_ids) ==
    /\ seqs.movies < MaxCatalogMovies
    /\ \E o \in api_create_movie(DB, p, director_id, genre_ids) : Returns(o)

NextCatalog ==
    \/ \E name \in DirectorNameInputs : GetOrCreateDirectorByName(name)
    \/ \E names \in GenreNameLists : GetOrCreateGenresByNames(names)
    \/ \E p \in CatalogPayloads, d \in DirectorIdInputs, g \in GenreIdSelections :
           CatalogCreateMovie(p, d, g)
    \/ \E m \in CatalogMovieIds, p \in CatalogPayloads, d \in DirectorIdInputs,
          g \in GenreIdSelections : ApiUpdateMovie(m, p, d, g)
    \/ \E m \in CatalogMovieIds, r \in Ratings, t \in Comments : AddReview(m, r, t)

SpecCatalog == Init /\ [][NextCatalog]_vars

(* ------------- get_db around a request ---------------------------------- *)
\* Each request p resolves Depends(get_db) once (its handler and
\* get_current_user share the one session): get_db opens the session and
\* yields it, the handler runs, and the generator is resumed where it yielded.

\* the sessions opened so far by all requests
OpenedSoFar == db_sessions[1].opened + db_sessions[2].opened

\* db = SessionLocal(); try: yield db
GetDbYield(p) ==
    /\ pc[p] = "idle"
    /\ OpenedSoFar < MaxRequests
    /\ db_sessions' = [db_sessions EXCEPT ![p].opened = @ + 1]
    /\ pc' = [pc EXCEPT ![p] = "yielded"]
    /\ UNCHANGED <<tables, seqs, last, clean_name>>

\* how a handler that ended with kind leaves: the JSON routes raise
\* HTTPException for a ValueError, a None and a False from crud; a database
\* error is caught by no handler
HandlerRaises(json_route, kind) ==
    \/ kind = "IntegrityError"
    \/ json_route /\ kind \in {"ValueError: Director not found", "404", "None", "False"}

\* the handler of request p runs to its return or its raise
HandlerRuns(p, json_route, outcomes) ==
    /\ pc[p] = "yielded"
    /\ \E o \in outcomes :
           /\ Commits(o)
           /\ pc' = [pc EXCEPT ![p] = IF HandlerRaises(json_route, o.kind)
                                      THEN "raised" ELSE "returned"]
    /\ UNCHANGED <<clean_name, db_sessions>>

\* get_db without its try/finally: a raise leaves the generator at the yield
GetDbFinally_no_finally(p) ==
    /\ pc[p] \in {"returned", "raised"}
    /\ db_sessions' = [db_sessions EXCEPT ![p].closed =
                          IF pc[p] = "returned" THEN @ + 1 ELSE @]
    /\ pc' = [pc EXCEPT ![p] = "idle"]
    /\ UNCHANGED <<tables, seqs, last, clean_name>>

\* finally: db.close()
GetDbFinally(p) ==
    /\ pc[p] \in {"returned", "raised"}
    /\ db_sessions' = [db_sessions EXCEPT ![p].closed = @ + 1]
    /\ pc' = [pc EXCEPT ![p] = "idle"]
    /\ UNCHANGED <<tables, seqs, last, clean_name>>

NextRequests ==
    \/ \E p \in Sessions : GetDbYield(p)
    \/ \E p \in Sessions, m \in MovieIdInputs : HandlerRuns(p, TRUE, api_get_movie(DB, m))
    \/ \E p \in Sessions, b \in Payloads, d \in DirectorIdInputs, g \in GenreIdSelections :
           Room(0, 0, 1, 0) /\ HandlerRuns(p, TRUE, api_create_movie(DB, b, d, g))
    \/ \E p \in Sessions, m \in MovieIdInputs, b \in Payloads, d \in DirectorIdInputs,
          g \in GenreIdSelections : HandlerRuns(p, TRUE, api_update_movie(DB, m, b, d, g))
    \/ \E p \in Sessions, m \in MovieIdInputs : HandlerRuns(p, TRUE, api_delete_movie(DB, m))
    \/ \E p \in Sessions, c \in Cookies, f \in FormPayloads, dn \in DirectorNameInputs,
          gn \in FormGenreInputs :
           /\ Room(1, Len(FormGenreNames(gn)), 1, 0)
           /\ HandlerRuns(p, FALSE, handle_add_movie(DB, c, f, dn, gn))
    \/ \E p \in Sessions, c \in Cookies, m \in MovieIdInputs, f \in FormPayloads,
          dn \in DirectorNameInputs, gn \in FormGenreInputs :
           /\ Room(1, Len(FormGenreNames(gn)), 0, 0)
           /\ HandlerRuns(p, FALSE, handle_edit_movie(DB, c, m, f, dn, gn))
    \/ \E p \in Sessions, c \in Cookies, m \in MovieIdInputs :
           HandlerRuns(p, FALSE, handle_delete_movie(DB, c, m))
    \/ \E p \in Sessions, m \in MovieIdInputs, r \in Ratings, t \in Comments :
           Room(0, 0, 0, 1) /\ HandlerRuns(p, FALSE, add_review(DB, m, r, t))
    \/ \E p \in Sessions : GetDbFinally(p)

\* the generator is resumed once the handler has left: the finally block is
\* not held back forever
SpecRequests ==
    Init /\ [][NextRequests]_vars /\ \A p \in Sessions : WF_vars(GetDbFinally(p))

(* ----------------------------- properties ------------------------------ *)
\* the rows of every table of a store s
Rows(s) == <<s.directors, s.genres, s.movies, s.movie_genre_association, s.reviews>>

\* C1: create_movie with an existing director_id, then get_movie on the
\* returned id: the Movie read back has the title, year, description,
\* image_url and director given, and its genres are exactly the Genres that
\* existed at the call and whose id is in genre_ids; ids of no Genre are left
\* out without an error.
C1_CreateThenGet ==
    \A p \in Payloads, d \in DirectorIdInputs, g \in GenreIdLists :
        d \in DirectorIds(DB)
        => LET out == create_movie(DB, p, d, g) IN
           /\ out.kind = "ok"
           /\ \A movie \in get_movie(out.s, out.value[1]) :
                /\ IsRow(movie)
                /\ movie.title = p.title
                /\ movie.year = p.year
                /\ movie.description = p.description
                /\ movie.image_url = p.image_url
                /\ get_director_by_id(out.s, movie.director_id) = get_director_by_id(DB, d)
                /\ {x.id : x \in MovieGenres(out.s, movie.id)} = GenreIds(DB) \cap Range(g)

\* a movie was created with some, not all, of the genres of the store
C1_Witness ==
    /\ last.op = "create_movie"
    /\ last.kind = "ok"
    /\ MovieGenres(DB, last.value[1]) # {}
    /\ MovieGenres(DB, last.value[1]) # genres

\* C2: create_movie with a director_id that names no Director fails with the
\* value error "Director not found" and leaves the whole store as it was.
C2_CreateUnknownDirector ==
    \A p \in Payloads, d \in DirectorIdInputs, g \in GenreIdLists :
        d \notin DirectorIds(DB)
        => LET out == create_movie(DB, p, d, g) IN
           /\ out.kind = "ValueError: Director not found"
           /\ out.s = DB

\* the call failed in a store that has genres and a director to offer
C2_Witness ==
    /\ last.op = "create_movie"
    /\ last.kind = "ValueError: Director not found"
    /\ genres # {}
    /\ directors # {}

\* C3: delete_movie on an existing Movie returns True and removes the Movie
\* and every Review of it (and no other Review), and every Director and Genre
\* stays; a second delete_movie on the same id returns False and changes
\* nothing.
C3_Delete ==
    \A m \in MovieIds(DB) :
        LET out == delete_movie(DB, m)
            again == delete_movie(out.s, m)
        IN /\ out.kind = "True"
           /\ m \notin MovieIds(out.s)
           /\ out.s.reviews = reviews \ MovieReviews(DB, m)
           /\ MovieReviews(out.s, m) = {}
           /\ out.s.directors = directors
           /\ out.s.genres = genres
           /\ again.kind = "False"
           /\ again.s = out.s

\* a second delete of an id whose Movie was deleted with its review, in a
\* store that still has a Director and a Genre
C3_Witness ==
    /\ last.op = "delete_movie"
    /\ last.kind = "False"
    /\ last.movie_id \in 1..seqs.movies
    /\ last.movie_id \notin MovieIds(DB)
    /\ seqs.reviews > 0
    /\ reviews = {}
    /\ directors # {}
    /\ genres # {}

\* C4: update_movie with a movie id that names no Movie returns None,
\* whatever director_id and genre_ids are, and leaves the store as it was.
C4_UpdateUnknownMovie ==
    \A m \in MovieIdInputs, p \in Payloads, d \in DirectorIdInputs, g \in GenreIdLists :
        m \notin MovieIds(DB)
        => LET out == update_movie(DB, m, p, d, g) IN
           /\ out.kind = "None"
           /\ out.s = DB

\* update_movie returned None in a store without any Director
C4_Witness ==
    /\ last.op = "update_movie"
    /\ last.kind = "None"
    /\ directors = {}

\* C5: update_movie on an existing Movie with a director_id that names no
\* Director fails with the value error "Director not found", and the movie's
\* row and genres, like the rest of the store, are what they were.
C5_UpdateUnknownDirector ==
    \A m \in MovieIds(DB), p \in Payloads, d \in DirectorIdInputs, g \in GenreIdLists :
        d \notin DirectorIds(DB)
        => LET out == update_movie(DB, m, p, d, g) IN
           /\ out.kind = "ValueError: Director not found"
           /\ get_movie(out.s, m) = get_movie(DB, m)
           /\ MovieGenres(out.s, m) = MovieGenres(DB, m)
           /\ out.s = DB

\* the update of a movie that has genres failed for its director
C5_Witness ==
    /\ last.op = "update_movie"
    /\ last.kind = "ValueError: Director not found"
    /\ last.movie_id \in MovieIds(DB)
    /\ MovieGenres(DB, last.movie_id) # {}

\* n and n2 differ in leading and trailing whitespace and in letter case only
SameNameFolded(n, n2) == LowerStr(Strip(n)) = LowerStr(Strip(n2))

\* C6: get_or_create_director_by_name(n) and then, with a name n2 that
\* differs from n in leading and trailing whitespace and letter case only,
\* get_or_create_director_by_name(n2): the second call returns the id the
\* first returned and creates no Director row.
C6_ResolveDirectorIdempotent ==
    \A n, n2 \in DirectorNames :
        SameNameFolded(n, n2)
        => \A first \in get_or_create_director_by_name(DB, n) :
            \A second \in get_or_create_director_by_name(first.s, n2) :
                /\ second.value = first.value
                /\ second.s.directors = first.s.directors

\* the names of a list that are not empty once trimmed
NonBlank(names) == NonBlankStripped(names)

\* all names of the list are equal after trimming and case folding
AllSameFolded(names) ==
    \A i, j \in 1..Len(names) : LowerStr(names[i]) = LowerStr(names[j])

\* C7: get_or_create_genres_by_names on names that are equal after trimming
\* and case folding (the trimmed-empty ones aside) creates at most one Genre
\* row and returns a result that holds that one Genre exactly once; names
\* that are empty once trimmed add nothing to the result.
C7_ResolveGenresCollapses ==
    \A names \in GenreNameLists :
        AllSameFolded(NonBlank(names))
        => \A out \in get_or_create_genres_by_names(DB, names) :
            /\ Cardinality(out.s.genres \ genres) <= 1
            /\ out.kind = "ok"
               => Len(out.value) = (IF NonBlank(names) = <<>> THEN 0 ELSE 1)

\* C8: every Review's movie_id names an existing Movie, in every state any
\* sequence of the application's operations reaches.
C8_ReviewsHaveMovies ==
    \A r \in reviews : r.movie_id \in MovieIds(DB)

\* POST /movies/{movie_id}/review for an id that names no Movie was refused,
\* after a Movie was deleted together with its review
C8_Witness ==
    /\ last.op = "add_review"
    /\ last.kind = "IntegrityError"
    /\ last.movie_id \notin MovieIds(DB)
    /\ last.movie_id \in 1..seqs.movies

\* what the handlers that write can do with a request that carries cookie
WriteRequestOutcomes(cookie) ==
    UNION (
        {api_create_movie(DB, p, d, g) :
            p \in Payloads, d \in DirectorIdInputs, g \in GenreIdLists}
        \cup {api_update_movie(DB, m, p, d, g) :
            m \in MovieIdInputs, p \in Payloads, d \in DirectorIdInputs, g \in GenreIdLists}
        \cup {api_delete_movie(DB, m) : m \in MovieIdInputs}
        \cup {handle_add_movie(DB, cookie, f, dn, gn) :
            f \in FormPayloads, dn \in DirectorNameInputs, gn \in FormGenreInputs}
        \cup {handle_edit_movie(DB, cookie, m, f, dn, gn) :
            m \in MovieIdInputs, f \in FormPayloads, dn \in DirectorNameInputs,
            gn \in FormGenreInputs}
        \cup {handle_delete_movie(DB, cookie, m) : m \in MovieIdInputs}
        \cup {add_review(DB, m, r, c) : m \in MovieIdInputs, r \in Ratings, c \in Comments})

\* C9: a request whose username cookie is missing or names no User leaves
\* the store unchanged, whichever handler it reaches: no Movie is created,
\* updated or deleted and no Review is added.
C9_WritesNeedUser ==
    \A cookie \in Cookies :
        get_current_user(cookie) = None
        => \A o \in WriteRequestOutcomes(cookie) : Rows(o.s) = Rows(DB)

\* C10: of two simultaneous get_or_create_director_by_name calls whose
\* lookups both missed, each inserts its Director row under a fresh id, also
\* when a row of the same name is in the table by then: no lock, unique
\* constraint or retry stands in the way of two rows with one name.
C10_BothInsert ==
    [][\A p \in Sessions :
        (pc[p] = "insert" /\ pc'[p] = "idle")
        => \E d \in directors' \ directors :
            /\ d.name = clean_name[p]
            /\ d.id \notin DirectorIds(DB)
      ]_vars

\* two Director rows named "a" with different ids, left by two sessions
C10_Witness ==
    /\ \A p \in Sessions : pc[p] = "idle" /\ clean_name[p] = <<"a">>
    /\ last.kind = "created"
    /\ \E d1, d2 \in directors :
        d1.id # d2.id /\ d1.name = <<"a">> /\ d2.name = <<"a">>

\* C11: a request holds exactly one open session from get_db's yield until its
\* handler has returned or raised, never closes it while the handler runs,
\* and once the handler has left - by a return or by a raise - the session is
\* eventually closed, one close per session opened.
C11_SessionClosedOnce ==
    /\ [](\A p \in Sessions :
            db_sessions[p].opened - db_sessions[p].closed
                = IF pc[p] \in {"yielded", "returned", "raised"} THEN 1 ELSE 0)
    /\ \A p \in Sessions :
          (pc[p] \in {"returned", "raised"})
              ~> (pc[p] = "idle" /\ db_sessions[p].closed = db_sessions[p].opened)

\* a request whose handler raised (the 400 of an unknown director) is over,
\* and its session is closed
C11_Witness ==
    /\ last.kind = "ValueError: Director not found"
    /\ \E p \in Sessions :
          /\ pc[p] = "idle"
          /\ db_sessions[p].opened = 1
          /\ db_sessions[p].closed = 1
    /\ \A p \in Sessions : pc[p] = "idle"

\* C12: no two Genre rows have names that are equal after case folding.
C12_GenreNamesFoldedUnique ==
    \A g1, g2 \in genres :
        g1.id # g2.id => LowerStr(g1.name) # LowerStr(g2.name)

\* C13: update_movie_with_names with a movie id that names no Movie returns
\* None and leaves the store as it was: no Director row and no Genre row is
\* created for the names it was given.
C13_UpdateWithNamesUnknownMovie ==
    \A m \in MovieIdInputs, p \in Payloads, dn \in DirectorNameInputs,
       gn \in GenreNameLists :
        m \notin MovieIds(DB)
        => \A out \in update_movie_with_names(DB, m, p, dn, gn) :
               /\ out.kind = "None"
               /\ out.s = DB

\* C14: get_or_create_director_by_name(name) creates a Director exactly when
\* no Director's name equals the trimmed name under case folding; otherwise
\* it creates none and returns a Director whose name equals the trimmed name
\* under case folding. This for every name, '%' and '_' included.
C14_ResolveDirectorExactMatch ==
    \A n \in DirectorNames :
        LET clean == Strip(n)
            same == {d \in directors : LowerStr(d.name) = LowerStr(clean)}
        IN \A out \in get_or_create_director_by_name(DB, n) :
              IF same = {}
              THEN out.s.directors
                     = directors \cup {[id |-> out.value[1], name |-> clean,
                                        birth_date |-> None]}
                   /\ out.value[1] \notin DirectorIds(DB)
              ELSE out.s.directors = directors
                   /\ \E d \in same : d.id = out.value[1]

\* C15: update_movie on an existing Movie with an existing director_id returns
\* the movie with title, year, description, image_url and director_id equal
\* to the arguments; its genres are exactly the existing Genres whose id is in
\* genre_ids; every other Movie and its genres, and every Director, Genre and
\* Review row, are as they were.
C15_UpdateReplacesWholesale ==
    \A m \in MovieIds(DB), p \in Payloads, d \in DirectorIds(DB), g \in GenreIdLists :
        LET out == update_movie(DB, m, p, d, g) IN
        /\ out.kind = "ok"
        /\ out.value = <<m>>
        /\ get_movie(out.s, m) = {MovieRow(m, p, d)}
        /\ {x.id : x \in MovieGenres(out.s, m)} = Range(g) \cap GenreIds(DB)
        /\ {x \in out.s.movies : x.id # m} = {x \in movies : x.id # m}
        /\ {a \in out.s.movie_genre_association : a[1] # m}
             = {a \in movie_genre_association : a[1] # m}
        /\ out.s.directors = directors
        /\ out.s.genres = genres
        /\ out.s.reviews = reviews
        /\ out.s.seqs = seqs

\* update_movie has just returned a movie that has a review and genres,
\* beside a second movie whose genres are others
C15_Witness ==
    /\ last.op = "update_movie"
    /\ last.kind = "ok"
    /\ \E m \in movies, o \in movies :
          /\ m.id = last.movie_id
          /\ o.id # m.id
          /\ MovieGenres(DB, m.id) # MovieGenres(DB, o.id)
          /\ MovieGenres(DB, o.id) # {}
          /\ MovieGenres(DB, m.id) # {}
          /\ MovieReviews(DB, m.id) # {}

====
